---------------------------- MODULE Spec2Model ----------------------------
(***************************************************************************)
(* Two-phase simplex and Gomory cutting planes of GomoryMethod, in both    *)
(* representations of the repository: the functional pipeline              *)
(* (FunctionalApproach: simplex_solve / gomory_solve) and the stateful     *)
(* objects (ObjectOrientedApproach: SimplexMethod / GomoryMethod).         *)
(*                                                                         *)
(* Lists are functions over 0..len-1, so every index is the index the      *)
(* Python source uses.  A Fraction is a pair <<numerator, denominator>>    *)
(* in lowest terms with a positive denominator, as fractions.Fraction      *)
(* keeps it.                                                               *)
(***************************************************************************)
EXTENDS Integers, Sequences, FiniteSets, TLC

(***************************************************************************)
(* Bounds of the explored problem family.                                  *)
(***************************************************************************)
MaxCoef == 2
MaxRhs == 3
MaxPivots == 6
MaxCuts == 7

(***************************************************************************)
(* fractions.Fraction                                                      *)
(***************************************************************************)
Abs(x) == IF x < 0 THEN -x ELSE x

RECURSIVE GCD(_, _)
GCD(a, b) == IF b = 0 THEN a ELSE GCD(b, a % b)

Frac(num, den) ==
    LET s == IF den < 0 THEN -1 ELSE 1
        g == GCD(Abs(num), Abs(den))
    IN  <<(s * num) \div g, (s * den) \div g>>

Zero == <<0, 1>>
One == <<1, 1>>
FromInt(k) == <<k, 1>>

FAdd(x, y) == Frac(x[1] * y[2] + y[1] * x[2], x[2] * y[2])
FSub(x, y) == Frac(x[1] * y[2] - y[1] * x[2], x[2] * y[2])
FMul(x, y) == Frac(x[1] * y[1], x[2] * y[2])
FDiv(x, y) == Frac(x[1] * y[2], x[2] * y[1])
FNeg(x) == <<-x[1], x[2]>>
FAbs(x) == <<Abs(x[1]), x[2]>>
FLt(x, y) == x[1] * y[2] < y[1] * x[2]
FLe(x, y) == x[1] * y[2] <= y[1] * x[2]

(***************************************************************************)
(* Python lists as functions over 0..len-1                                 *)
(***************************************************************************)
Size(l) == Cardinality(DOMAIN l)
Empty == [i \in {} |-> 0]
ListAppend(l, x) == [i \in 0..Size(l) |-> IF i < Size(l) THEN l[i] ELSE x]
\* list.insert(-1, x): x goes in front of the last element
InsertBeforeLast(l, x) ==
    [i \in 0..Size(l) |-> IF i < Size(l) - 1 THEN l[i]
                          ELSE IF i = Size(l) - 1 THEN x ELSE l[Size(l) - 1]]
\* del l[k]
DeleteAt(l, k) == [i \in 0..(Size(l) - 2) |-> IF i < k THEN l[i] ELSE l[i + 1]]
Last(l) == l[Size(l) - 1]

(***************************************************************************)
(* State.  num_vars, constraints and objective_function are the arguments  *)
(* of the solve; a constraint is the coefficient a[j] of every x_(j+1),    *)
(* the relation op and the right-hand side b that the constraint string    *)
(* spells, the objective is the direction and the coefficient c[j] of      *)
(* every x_(j+1).  impl says which of the two representations runs.        *)
(***************************************************************************)
\* functional_run is not a field of either solver: it keeps what the run of
\* the functional solver on the problem ended with, for the comparison with
\* the run of the object-oriented solver on the same problem
VARIABLES impl, num_vars, constraints, objective_function,
          pc, simplex_table, basic_vars, r_rows, num_s_vars, num_r_vars,
          history, step, key_row, key_column,
          simplex_ret, gomory_ret, error, phase1_passes,
          functional_run

vars == <<impl, num_vars, constraints, objective_function,
          pc, simplex_table, basic_vars, r_rows, num_s_vars, num_r_vars,
          history, step, key_row, key_column,
          simplex_ret, gomory_ret, error, phase1_passes,
          functional_run>>

(***************************************************************************)
(* FunctionalApproach/table_tools.py                                       *)
(***************************************************************************)
sum_rows(row1, row2) == [i \in DOMAIN row1 |-> FAdd(row1[i], row2[i])]

multiply_const_row(const, row) == [i \in DOMAIN row |-> FMul(const, row[i])]

(***************************************************************************)
(* FunctionalApproach/utils.py: construct_simplex_table                    *)
(***************************************************************************)
CountOps(cons, S) == Cardinality({i \in DOMAIN cons : cons[i].op \in S})

\* rows 1..len(constraints) of coeff_matrix, filled one constraint at a time;
\* err is the IndexError of an artificial column beyond the end of the row
RECURSIVE FillRows(_, _, _, _)
FillRows(st, cons, n, i) ==
    IF i > Size(cons) \/ st.err THEN st
    ELSE
      LET con == cons[i - 1]
          last == Size(st.cm[i]) - 1
          coefs == [j \in DOMAIN st.cm[i] |->
                      IF j < n THEN FromInt(con.a[j]) ELSE st.cm[i][j]]
          needs_r == con.op \in {">=", "="}
          slack == IF con.op = "<=" THEN [coefs EXCEPT ![st.s_index] = One]
                   ELSE IF con.op = ">=" THEN [coefs EXCEPT ![st.s_index] = FromInt(-1)]
                   ELSE coefs
      IN  IF needs_r /\ st.r_index > last
          THEN [st EXCEPT !.err = TRUE]
          ELSE
            LET art == IF needs_r THEN [slack EXCEPT ![st.r_index] = One] ELSE slack
                row == [art EXCEPT ![last] = FromInt(con.b)]
            IN  FillRows([cm |-> [st.cm EXCEPT ![i] = row],
                          s_index |-> IF con.op = "=" THEN st.s_index ELSE st.s_index + 1,
                          r_index |-> IF needs_r THEN st.r_index + 1 ELSE st.r_index,
                          r_rows |-> IF needs_r THEN ListAppend(st.r_rows, i) ELSE st.r_rows,
                          err |-> FALSE],
                         cons, n, i + 1)

construct_simplex_table(cons, n) ==
    LET s_vars == CountOps(cons, {">="}) + CountOps(cons, {"<="})
        r_vars == CountOps(cons, {"<="}) + CountOps(cons, {"="})
        total_vars == n + s_vars + r_vars
        coeff_matrix == [i \in 0..Size(cons) |-> [j \in 0..total_vars |-> Zero]]
        st == FillRows([cm |-> coeff_matrix, s_index |-> n, r_index |-> n + s_vars,
                        r_rows |-> Empty, err |-> FALSE], cons, n, 1)
    IN  [err |-> st.err, coeff_matrix |-> st.cm, r_rows |-> st.r_rows,
         num_s_vars |-> s_vars, num_r_vars |-> r_vars]

\* row 0 gets -c[j] for every x_(j+1), and the sign is flipped again for 'max'
update_objective_function(table, objective) ==
    [table EXCEPT ![0] = [j \in DOMAIN table[0] |->
        IF j < Size(objective.c)
        THEN IF objective.direction = "max"
             THEN FMul(FromInt(-objective.c[j]), FromInt(-1))
             ELSE FromInt(-objective.c[j])
        ELSE table[0][j]]]

\* The dict solution, keyed by j for 'x_(j+1)'.  First loop: every row i >= 1
\* whose basic variable is a decision variable stores the row's right-hand
\* side under it, a later row overwriting an earlier one.
RECURSIVE BasicValues(_, _, _, _, _)
BasicValues(table, basic, n, solution, i) ==
    IF i > Size(basic) - 1 THEN solution
    ELSE BasicValues(table, basic, n,
                     IF basic[i] < n
                     THEN (basic[i] :> Last(table[i])) @@ solution
                     ELSE solution,
                     i + 1)

\* second loop: every decision variable not in basic_vars[1:] is stored as 0
RECURSIVE ZeroValues(_, _, _, _)
ZeroValues(basic, n, solution, j) ==
    IF j > n - 1 THEN solution
    ELSE ZeroValues(basic, n,
                    IF \E k \in 1..(Size(basic) - 1) : basic[k] = j
                    THEN solution
                    ELSE (j :> Zero) @@ solution,
                    j + 1)

\* create_solution with the first loop keeping the first row a variable is
\* basic in, not the last
RECURSIVE BasicValuesFirst(_, _, _, _, _)
BasicValuesFirst(table, basic, n, solution, i) ==
    IF i > Size(basic) - 1 THEN solution
    ELSE BasicValuesFirst(table, basic, n,
                          IF basic[i] < n
                          THEN solution @@ (basic[i] :> Last(table[i]))
                          ELSE solution,
                          i + 1)

create_solution_first_row(table, basic, n) ==
    ZeroValues(basic, n, BasicValuesFirst(table, basic, n, Empty, 1), 0)

create_solution(table, basic, n) ==
    ZeroValues(basic, n, BasicValues(table, basic, n, Empty, 1), 0)

(***************************************************************************)
(* FunctionalApproach/simplex_module.py                                    *)
(***************************************************************************)
\* every entry of row 0, the last one included, is <= 0
check_condition(table) == \A j \in DOMAIN table[0] : FLe(table[0][j], Zero)

\* the loop keeps the last column of 0..len-2 whose |entry| is >= the best so far
RECURSIVE KeyColumnLoop(_, _, _)
KeyColumnLoop(F, key_columns, i) ==
    IF i > Size(F) - 2 THEN key_columns
    ELSE KeyColumnLoop(F,
                       IF FLe(FAbs(F[key_columns]), FAbs(F[i])) THEN i ELSE key_columns,
                       i + 1)

\* find_key_column with the comparison made strict: a later column replaces
\* the current one only when it is strictly larger in absolute value
RECURSIVE KeyColumnLoopStrict(_, _, _)
KeyColumnLoopStrict(F, key_columns, i) ==
    IF i > Size(F) - 2 THEN key_columns
    ELSE KeyColumnLoopStrict(F,
                             IF FLt(FAbs(F[key_columns]), FAbs(F[i])) THEN i ELSE key_columns,
                             i + 1)

find_key_column_strict(table) == KeyColumnLoopStrict(table[0], 0, 0)

find_key_column(table) == KeyColumnLoop(table[0], 0, 0)

\* min_val is <<>> while it is float("inf")
RECURSIVE KeyRowLoop(_, _, _, _, _)
KeyRowLoop(table, col, min_val, row, i) ==
    IF i > Size(table) - 1 THEN [min_val |-> min_val, key_row |-> row]
    ELSE IF FLt(Zero, table[i][col])
         THEN LET val == FDiv(Last(table[i]), table[i][col])
              IN  IF min_val = <<>> \/ FLt(val, min_val)
                  THEN KeyRowLoop(table, col, val, i, i + 1)
                  ELSE KeyRowLoop(table, col, min_val, row, i + 1)
         ELSE KeyRowLoop(table, col, min_val, row, i + 1)

\* find_key_row with the comparison val <= min_val: a later row with the
\* same ratio replaces the current one
RECURSIVE KeyRowLoopNonStrict(_, _, _, _, _)
KeyRowLoopNonStrict(table, col, min_val, row, i) ==
    IF i > Size(table) - 1 THEN [min_val |-> min_val, key_row |-> row]
    ELSE IF FLt(Zero, table[i][col])
         THEN LET val == FDiv(Last(table[i]), table[i][col])
              IN  IF min_val = <<>> \/ FLe(val, min_val)
                  THEN KeyRowLoopNonStrict(table, col, val, i, i + 1)
                  ELSE KeyRowLoopNonStrict(table, col, min_val, row, i + 1)
         ELSE KeyRowLoopNonStrict(table, col, min_val, row, i + 1)

find_key_row_non_strict(table, col) ==
    LET r == KeyRowLoopNonStrict(table, col, <<>>, 0, 1)
    IN  [unbounded |-> r.min_val = <<>>,
         degenerate |-> r.min_val = Zero,
         key_row |-> r.key_row]

\* unbounded: no row has a positive entry in the key column (ValueError)
find_key_row(table, col) ==
    LET r == KeyRowLoop(table, col, <<>>, 0, 1)
    IN  [unbounded |-> r.min_val = <<>>,
         degenerate |-> r.min_val = Zero,
         key_row |-> r.key_row]

normalize_to_pivot(table, row, pivot) ==
    [table EXCEPT ![row] = [j \in DOMAIN table[row] |-> FDiv(table[row][j], pivot)]]

\* make_key_column_zero with the loop over the rows started at row 1: the
\* objective row keeps its entry in the key column
make_key_column_zero_from_row_1(table, col, row) ==
    [i \in DOMAIN table |->
        IF i = row \/ i = 0 THEN table[i]
        ELSE LET factor == table[i][col]
             IN  [j \in DOMAIN table[i] |-> FSub(table[i][j], FMul(table[row][j], factor))]]

make_key_column_zero(table, col, row) ==
    [i \in DOMAIN table |->
        IF i = row THEN table[i]
        ELSE LET factor == table[i][col]
             IN  [j \in DOMAIN table[i] |-> FSub(table[i][j], FMul(table[row][j], factor))]]

\* zero_division: the pivot is 0 and the first division raises ZeroDivisionError
simplex_step(table, basic, col, row) ==
    LET pivot == table[row][col]
    IN  IF pivot = Zero
        THEN [zero_division |-> TRUE, simplex_table |-> table,
              basic_vars |-> [basic EXCEPT ![row] = col]]
        ELSE [zero_division |-> FALSE,
              simplex_table |-> make_key_column_zero(normalize_to_pivot(table, row, pivot),
                                                     col, row),
              basic_vars |-> [basic EXCEPT ![row] = col]]

RECURSIVE DeleteDown(_, _)
DeleteDown(row, non_r_length) ==
    IF Size(row) = non_r_length THEN row
    ELSE DeleteDown(DeleteAt(row, non_r_length - 1), non_r_length)

delete_r_vars(table, n, s_vars) ==
    [i \in DOMAIN table |-> DeleteDown(table[i], n + s_vars + 1)]

\* phase1, lines 174-185: the auxiliary objective and the starting basis
RECURSIVE FoldRRows(_, _, _, _, _)
FoldRRows(table, basic, rows, r_index, k) ==
    IF k > Size(rows) - 1 THEN [simplex_table |-> table, basic_vars |-> basic]
    ELSE FoldRRows([table EXCEPT ![0] = sum_rows(table[0], table[rows[k]])],
                   [basic EXCEPT ![rows[k]] = r_index],
                   rows, r_index + 1, k + 1)

RECURSIVE FillSlackBasis(_, _, _)
FillSlackBasis(basic, s_index, i) ==
    IF i > Size(basic) - 1 THEN basic
    ELSE IF basic[i] = 0
         THEN FillSlackBasis([basic EXCEPT ![i] = s_index], s_index + 1, i + 1)
         ELSE FillSlackBasis(basic, s_index, i + 1)

\* type_error: the loop of lines 186-190 is entered, and its first statement
\* calls find_key_column() without the table (TypeError)
phase1(table, basic, rows, n, s_vars) ==
    LET r_index == n + s_vars
        aux == [table EXCEPT ![0] = [j \in DOMAIN table[0] |->
                   IF r_index <= j /\ j < Size(table[0]) - 1
                   THEN FromInt(-1) ELSE table[0][j]]]
        folded == FoldRRows(aux, basic, rows, r_index, 0)
        basis == FillSlackBasis(folded.basic_vars, n, 1)
    IN  [type_error |-> ~check_condition(folded.simplex_table),
         simplex_table |-> folded.simplex_table,
         basic_vars |-> basis]

\* simplex_solve, lines 38-42: the row used for basic_vars[k + 1] is row k;
\* index_error is the column of a basic variable beyond the end of row 0
RECURSIVE Renormalize(_, _, _)
Renormalize(table, basic, row) ==
    IF row > Size(basic) - 2 THEN [index_error |-> FALSE, simplex_table |-> table]
    ELSE LET column == basic[row + 1]
         IN  IF column > Size(table[0]) - 1
             THEN [index_error |-> TRUE, simplex_table |-> table]
             ELSE IF table[0][column] # Zero
                  THEN LET const == FNeg(table[0][column])
                           result == multiply_const_row(const, table[row])
                       IN  Renormalize([table EXCEPT ![0] = sum_rows(table[0], result)],
                                       basic, row + 1)
                  ELSE Renormalize(table, basic, row + 1)

(***************************************************************************)
(* FunctionalApproach/gomory_module.py                                     *)
(***************************************************************************)
\* every right-hand side of rows 1.. is >= 0 and has denominator 1
check_integer_condition(table) ==
    \A i \in 1..(Size(table) - 1) :
        /\ FLe(Zero, Last(table[i]))
        /\ Last(table[i])[2] = 1

\* abs(x) % 1 in exact arithmetic
FractionalPart(x) == <<Abs(x[1]) % x[2], x[2]>>

IsPowerOfTwo(d) == \E k \in 0..30 : d = 2 ^ k

\* curr_fractional_part > max_fractional_part is decided on
\* abs(float(x)) % 1.  float(x) is exact when the denominator is a power of
\* two; otherwise it is rounded, and two right-hand sides with the same
\* fractional part and different magnitudes round differently, so the
\* comparison of the two floats can come out either way.
FloatGreater(x, y) ==
    IF FractionalPart(x) = FractionalPart(y)
    THEN IF FAbs(x) = FAbs(y) \/ IsPowerOfTwo(x[2]) THEN {FALSE} ELSE {TRUE, FALSE}
    ELSE {FLt(FractionalPart(y), FractionalPart(x))}

\* the indices max_fractional_part_i can end with, the candidates so far in best
RECURSIVE MaxFractionalLoop(_, _, _)
MaxFractionalLoop(table, best, i) ==
    IF i > Size(table) - 1 THEN best
    ELSE MaxFractionalLoop(table,
            UNION {{IF g THEN i ELSE b : g \in FloatGreater(Last(table[i]), Last(table[b]))}
                   : b \in best},
            i + 1)

find_max_fractional_index(table) == MaxFractionalLoop(table, {1}, 1)

\* add_clipping with the sign of the cut lost: the coefficients of the new
\* row are the fractional parts, not their negations
add_clipping_unsigned(table, basic, index) ==
    LET width == Size(table[0])
        widened == [i \in DOMAIN table |-> InsertBeforeLast(table[i], Zero)]
        zero_row == InsertBeforeLast([j \in 0..(width - 1) |-> Zero], One)
        source == widened[index]
        clipping == [j \in DOMAIN zero_row |->
                        IF source[j] # Zero
                        THEN Frac(source[j][1] % source[j][2], source[j][2])
                        ELSE zero_row[j]]
        new_table == ListAppend(widened, clipping)
    IN  [simplex_table |-> new_table,
         basic_vars |-> ListAppend(basic, Size(new_table) - 1)]

\* one more row and one more column in front of the right-hand sides; the
\* new row is the cut of row index, and its own row index is appended to
\* the basic variables
add_clipping(table, basic, index) ==
    LET width == Size(table[0])
        widened == [i \in DOMAIN table |-> InsertBeforeLast(table[i], Zero)]
        zero_row == InsertBeforeLast([j \in 0..(width - 1) |-> Zero], One)
        source == widened[index]
        clipping == [j \in DOMAIN zero_row |->
                        IF source[j] # Zero
                        THEN Frac(-(source[j][1] % source[j][2]), source[j][2])
                        ELSE zero_row[j]]
        new_table == ListAppend(widened, clipping)
    IN  [simplex_table |-> new_table,
         basic_vars |-> ListAppend(basic, Size(new_table) - 1)]

RECURSIVE GomoryKeyRowLoop(_, _, _)
GomoryKeyRowLoop(beta, row, b) ==
    IF b > Size(beta) - 1 THEN row
    ELSE GomoryKeyRowLoop(beta,
                          IF FLe(FAbs(beta[row]), FAbs(beta[b])) THEN b ELSE row,
                          b + 1)

\* get_key_row with the comparison made strict: a later row replaces the
\* current one only when its beta is strictly larger in absolute value
RECURSIVE GomoryKeyRowLoopStrict(_, _, _)
GomoryKeyRowLoopStrict(beta, row, b) ==
    IF b > Size(beta) - 1 THEN row
    ELSE GomoryKeyRowLoopStrict(beta,
                                IF FLt(FAbs(beta[row]), FAbs(beta[b])) THEN b ELSE row,
                                b + 1)

get_key_row_strict(table) ==
    LET beta == [k \in 0..(Size(table) - 2) |->
                    IF FLt(Last(table[k + 1]), Zero) THEN Last(table[k + 1]) ELSE Zero]
    IN  GomoryKeyRowLoopStrict(beta, 0, 0) + 1

get_key_row(table) ==
    LET beta == [k \in 0..(Size(table) - 2) |->
                    IF FLt(Last(table[k + 1]), Zero) THEN Last(table[k + 1]) ELSE Zero]
    IN  GomoryKeyRowLoop(beta, 0, 0) + 1

\* <<>> stands for float('inf'): s <= t
ThetaLe(s, t) == t = <<>> \/ (s # <<>> /\ FLe(s, t))

RECURSIVE GomoryKeyColumnLoop(_, _, _)
GomoryKeyColumnLoop(tetha, col, t) ==
    IF t > Size(tetha) - 1 THEN col
    ELSE GomoryKeyColumnLoop(tetha,
                             IF ThetaLe(tetha[t], tetha[col]) THEN t ELSE col,
                             t + 1)

get_key_column(table, row) ==
    LET tetha == [j \in 0..(Size(table[0]) - 3) |->
                    IF FLt(table[row][j], Zero)
                    THEN FDiv(table[0][j], table[row][j]) ELSE <<>>]
    IN  GomoryKeyColumnLoop(tetha, 0, 0)

(***************************************************************************)
(* ObjectOrientedApproach/simplex_table.py: SimplexTable                   *)
(***************************************************************************)
\* rows 1..len(constraints) of coeff_matrix, filled one constraint at a time;
\* err is the IndexError of an artificial column beyond the end of the row
RECURSIVE ST_FillRows(_, _, _, _)
ST_FillRows(st, cons, n, i) ==
    IF i > Size(cons) \/ st.err THEN st
    ELSE
      LET con == cons[i - 1]
          last == Size(st.cm[i]) - 1
          coefs == [j \in DOMAIN st.cm[i] |->
                      IF j < n THEN FromInt(con.a[j]) ELSE st.cm[i][j]]
          needs_r == con.op \in {">=", "="}
          slack == IF con.op = "<=" THEN [coefs EXCEPT ![st.s_index] = One]
                   ELSE IF con.op = ">=" THEN [coefs EXCEPT ![st.s_index] = FromInt(-1)]
                   ELSE coefs
      IN  IF needs_r /\ st.r_index > last
          THEN [st EXCEPT !.err = TRUE]
          ELSE
            LET art == IF needs_r THEN [slack EXCEPT ![st.r_index] = One] ELSE slack
                row == [art EXCEPT ![last] = FromInt(con.b)]
            IN  ST_FillRows([cm |-> [st.cm EXCEPT ![i] = row],
                          s_index |-> IF con.op = "=" THEN st.s_index ELSE st.s_index + 1,
                          r_index |-> IF needs_r THEN st.r_index + 1 ELSE st.r_index,
                          r_rows |-> IF needs_r THEN ListAppend(st.r_rows, i) ELSE st.r_rows,
                          err |-> FALSE],
                         cons, n, i + 1)

\* _update_objective_function: set_item(0, j, -c[j]), and *= -1 for 'max'
ST_update_objective_function(matrix, objective) ==
    [matrix EXCEPT ![0] = [j \in DOMAIN matrix[0] |->
        IF j < Size(objective.c)
        THEN IF objective.direction = "max"
             THEN FMul(FromInt(-objective.c[j]), FromInt(-1))
             ELSE FromInt(-objective.c[j])
        ELSE matrix[0][j]]]

\* __init__: the matrix of the constraints, then the objective in row 0
ST_init(n, cons, objective) ==
    LET s_vars == CountOps(cons, {">="}) + CountOps(cons, {"<="})
        r_vars == CountOps(cons, {"<="}) + CountOps(cons, {"="})
        total_vars == n + s_vars + r_vars
        coeff_matrix == [i \in 0..Size(cons) |-> [j \in 0..total_vars |-> Zero]]
        st == ST_FillRows([cm |-> coeff_matrix, s_index |-> n, r_index |-> n + s_vars,
                           r_rows |-> Empty, err |-> FALSE], cons, n, 1)
    IN  [err |-> st.err,
         coeff_matrix |-> IF st.err THEN st.cm
                          ELSE ST_update_objective_function(st.cm, objective),
         r_rows |-> st.r_rows, num_s_vars |-> s_vars, num_r_vars |-> r_vars]

\* the row multiplied is row index + 1 of the matrix
ST_multiply_const_row(matrix, const, index) ==
    [i \in DOMAIN matrix[index + 1] |-> FMul(const, matrix[index + 1][i])]

ST_sum_rows(row1, row2) == [i \in DOMAIN row1 |-> FAdd(row1[i], row2[i])]

(***************************************************************************)
(* ObjectOrientedApproach/simplex_method.py: SimplexMethod                 *)
(***************************************************************************)
\* every entry of row 0, the last one included, is <= 0
SM_check_condition(table) == \A j \in DOMAIN table[0] : FLe(table[0][j], Zero)

\* the loop keeps the last column of 0..len-2 whose |entry| is >= the best so far
RECURSIVE SM_KeyColumnLoop(_, _, _)
SM_KeyColumnLoop(F, key_columns, i) ==
    IF i > Size(F) - 2 THEN key_columns
    ELSE SM_KeyColumnLoop(F,
                       IF FLe(FAbs(F[key_columns]), FAbs(F[i])) THEN i ELSE key_columns,
                       i + 1)

SM_find_key_column(table) == SM_KeyColumnLoop(table[0], 0, 0)

\* min_val is <<>> while it is float("inf")
RECURSIVE SM_KeyRowLoop(_, _, _, _, _)
SM_KeyRowLoop(table, col, min_val, row, i) ==
    IF i > Size(table) - 1 THEN [min_val |-> min_val, key_row |-> row]
    ELSE IF FLt(Zero, table[i][col])
         THEN LET val == FDiv(Last(table[i]), table[i][col])
              IN  IF min_val = <<>> \/ FLt(val, min_val)
                  THEN SM_KeyRowLoop(table, col, val, i, i + 1)
                  ELSE SM_KeyRowLoop(table, col, min_val, row, i + 1)
         ELSE SM_KeyRowLoop(table, col, min_val, row, i + 1)

\* unbounded: no row has a positive entry in the key column (ValueError)
SM_find_key_row(table, col) ==
    LET r == SM_KeyRowLoop(table, col, <<>>, 0, 1)
    IN  [unbounded |-> r.min_val = <<>>,
         degenerate |-> r.min_val = Zero,
         key_row |-> r.key_row]

SM_normalize_to_pivot(table, row, pivot) ==
    [table EXCEPT ![row] = [j \in DOMAIN table[row] |-> FDiv(table[row][j], pivot)]]

SM_make_key_column_zero(table, col, row) ==
    [i \in DOMAIN table |->
        IF i = row THEN table[i]
        ELSE LET factor == table[i][col]
             IN  [j \in DOMAIN table[i] |-> FSub(table[i][j], FMul(table[row][j], factor))]]

\* zero_division: the pivot is 0 and the first division raises ZeroDivisionError
SM_simplex_step(table, basic, col, row) ==
    LET pivot == table[row][col]
    IN  IF pivot = Zero
        THEN [zero_division |-> TRUE, simplex_table |-> table,
              basic_vars |-> [basic EXCEPT ![row] = col]]
        ELSE [zero_division |-> FALSE,
              simplex_table |-> SM_make_key_column_zero(SM_normalize_to_pivot(table, row, pivot),
                                                     col, row),
              basic_vars |-> [basic EXCEPT ![row] = col]]

RECURSIVE SM_DeleteDown(_, _)
SM_DeleteDown(row, non_r_length) ==
    IF Size(row) = non_r_length THEN row
    ELSE SM_DeleteDown(DeleteAt(row, non_r_length - 1), non_r_length)

SM_delete_r_vars(table, n, s_vars) ==
    [i \in DOMAIN table |-> SM_DeleteDown(table[i], n + s_vars + 1)]

\* The dict optimal_plane, keyed by j for 'x_(j+1)'.  First loop: every row i >= 1
\* whose basic variable is a decision variable stores the row's right-hand
\* side under it, a later row overwriting an earlier one.
RECURSIVE SM_BasicValues(_, _, _, _, _)
SM_BasicValues(table, basic, n, solution, i) ==
    IF i > Size(basic) - 1 THEN solution
    ELSE SM_BasicValues(table, basic, n,
                     IF basic[i] < n
                     THEN (basic[i] :> Last(table[i])) @@ solution
                     ELSE solution,
                     i + 1)

\* second loop: every decision variable not in basic_vars[1:] is stored as 0
RECURSIVE SM_ZeroValues(_, _, _, _)
SM_ZeroValues(basic, n, solution, j) ==
    IF j > n - 1 THEN solution
    ELSE SM_ZeroValues(basic, n,
                    IF \E k \in 1..(Size(basic) - 1) : basic[k] = j
                    THEN solution
                    ELSE (j :> Zero) @@ solution,
                    j + 1)

SM_get_solution(table, basic, n) ==
    SM_ZeroValues(basic, n, SM_BasicValues(table, basic, n, Empty, 1), 0)

\* solve, lines 47-51: the row used for basic_vars[k + 1] is row k + 1
RECURSIVE SM_Renormalize(_, _, _)
SM_Renormalize(table, basic, row) ==
    IF row > Size(basic) - 2 THEN table
    ELSE LET column == basic[row + 1]
         IN  IF table[0][column] # Zero
             THEN LET const == FNeg(table[0][column])
                      result == ST_multiply_const_row(table, const, row)
                  IN  SM_Renormalize([table EXCEPT ![0] = ST_sum_rows(table[0], result)],
                                     basic, row + 1)
             ELSE SM_Renormalize(table, basic, row + 1)

(***************************************************************************)
(* ObjectOrientedApproach/gomory_method.py: GomoryMethod                   *)
(***************************************************************************)
\* every right-hand side of rows 1.. is >= 0 and has denominator 1
GM_check_integer_condition(table) ==
    \A i \in 1..(Size(table) - 1) :
        /\ FLe(Zero, Last(table[i]))
        /\ Last(table[i])[2] = 1

\* curr_fractional_part > max_fractional_part is decided on
\* abs(float(x)) % 1.  float(x) is exact when the denominator is a power of
\* two; otherwise it is rounded, and two right-hand sides with the same
\* fractional part and different magnitudes round differently, so the
\* comparison of the two floats can come out either way.
GM_FloatGreater(x, y) ==
    IF FractionalPart(x) = FractionalPart(y)
    THEN IF FAbs(x) = FAbs(y) \/ IsPowerOfTwo(x[2]) THEN {FALSE} ELSE {TRUE, FALSE}
    ELSE {FLt(FractionalPart(y), FractionalPart(x))}

\* the indices max_fractional_part_i can end with, the candidates so far in best
RECURSIVE GM_MaxFractionalLoop(_, _, _)
GM_MaxFractionalLoop(table, best, i) ==
    IF i > Size(table) - 1 THEN best
    ELSE GM_MaxFractionalLoop(table,
            UNION {{IF g THEN i ELSE b : g \in GM_FloatGreater(Last(table[i]), Last(table[b]))}
                   : b \in best},
            i + 1)

GM_find_max_fractional_index(table) == GM_MaxFractionalLoop(table, {1}, 1)

\* add_zero_row, the new column, the cut of row index written by set_item into
\* the last row, and the row index of the new row appended to the basic variables
GM_add_clipping(table, basic, index) ==
    LET zero_row == [j \in DOMAIN table[1] |-> Zero]
        with_row == ListAppend(table, zero_row)
        widened == [i \in DOMAIN with_row |->
                       InsertBeforeLast(with_row[i],
                                        IF i = Size(with_row) - 1 THEN One ELSE Zero)]
        source == widened[index]
        clipping == [j \in DOMAIN source |->
                        IF source[j] # Zero
                        THEN Frac(-(source[j][1] % source[j][2]), source[j][2])
                        ELSE widened[Size(widened) - 1][j]]
        new_table == [widened EXCEPT ![Size(widened) - 1] = clipping]
    IN  [simplex_table |-> new_table,
         basic_vars |-> ListAppend(basic, Size(new_table) - 1)]

RECURSIVE GM_KeyRowLoop(_, _, _)
GM_KeyRowLoop(beta, row, b) ==
    IF b > Size(beta) - 1 THEN row
    ELSE GM_KeyRowLoop(beta,
                          IF FLe(FAbs(beta[row]), FAbs(beta[b])) THEN b ELSE row,
                          b + 1)

GM_get_key_row(table) ==
    LET beta == [k \in 0..(Size(table) - 2) |->
                    IF FLt(Last(table[k + 1]), Zero) THEN Last(table[k + 1]) ELSE Zero]
    IN  GM_KeyRowLoop(beta, 0, 0) + 1

RECURSIVE GM_KeyColumnLoop(_, _, _)
GM_KeyColumnLoop(tetha, col, t) ==
    IF t > Size(tetha) - 1 THEN col
    ELSE GM_KeyColumnLoop(tetha,
                             IF ThetaLe(tetha[t], tetha[col]) THEN t ELSE col,
                             t + 1)

GM_get_key_column(table, row) ==
    LET tetha == [j \in 0..(Size(table[0]) - 3) |->
                    IF FLt(table[row][j], Zero)
                    THEN FDiv(table[0][j], table[row][j]) ELSE <<>>]
    IN  GM_KeyColumnLoop(tetha, 0, 0)

(***************************************************************************)
(* The problems the solvers are run on: every problem of up to two         *)
(* variables and two constraints over the coefficient and right-hand-side  *)
(* ranges, and the problem of the two main.py.                             *)
(***************************************************************************)
Coefs == {-1, 1, MaxCoef}
RhsValues == {0, 1, MaxRhs}
ObjCoefs == {-1, 1}
Relations == {"<=", ">=", "="}
Shapes == {<<1, 1>>, <<1, 2>>, <<2, 1>>, <<2, 2>>}

ConstraintsOf(n) == [a : [0..(n - 1) -> Coefs], op : Relations, b : RhsValues]

Problems ==
    UNION {[num_vars : {sh[1]},
            constraints : [0..(sh[2] - 1) -> ConstraintsOf(sh[1])],
            objective_function : [direction : {"min", "max"},
                                  c : [0..(sh[1] - 1) -> ObjCoefs]]] : sh \in Shapes}

\* main.py: maximize 8x_1 + 6x_2, 2x_1 + 5x_2 <= 19, 4x_1 + 1x_2 <= 16
MainProblem ==
    [num_vars |-> 2,
     constraints |-> (0 :> [a |-> (0 :> 2 @@ 1 :> 5), op |-> "<=", b |-> 19]
                   @@ 1 :> [a |-> (0 :> 4 @@ 1 :> 1), op |-> "<=", b |-> 16]),
     objective_function |-> [direction |-> "max", c |-> (0 :> 8 @@ 1 :> 6)]]

NoReturn == [set |-> FALSE, optimum |-> Zero, optimal_plane |-> Empty, arity |-> 0]

NoRun == [set |-> FALSE, pc |-> "", error |-> "", optimum |-> Zero,
          optimal_plane |-> Empty, states |-> Empty]

Init ==
    /\ impl \in {"F", "OO"}
    /\ \E p \in Problems \cup {MainProblem} :
          /\ num_vars = p.num_vars
          /\ constraints = p.constraints
          /\ objective_function = p.objective_function
    /\ pc = "start"
    /\ simplex_table = Empty
    /\ basic_vars = Empty
    /\ r_rows = Empty
    /\ num_s_vars = 0
    /\ num_r_vars = 0
    /\ history = Empty
    /\ step = 0
    /\ key_row = 0
    /\ key_column = 0
    /\ simplex_ret = NoReturn
    /\ gomory_ret = NoReturn
    /\ error = ""
    /\ phase1_passes = 0
    /\ functional_run = NoRun

\* what no step of a solver changes
problem_vars == <<impl, num_vars, constraints, objective_function, functional_run>>

Raise(e) == pc' = "raised" /\ error' = e

\* history[label] = copy.deepcopy(...): a new entry, which shares no object
Record(h, label, k, table, basic) ==
    ListAppend(h, [label |-> label, k |-> k, simplex_table |-> table,
                   basic_vars |-> basic, shared |-> FALSE])

\* the entries whose table and basic variables are the objects the solver
\* goes on changing in place change with them
InPlace(h, table, basic) ==
    [e \in DOMAIN h |-> IF h[e].shared
                        THEN [h[e] EXCEPT !.simplex_table = table, !.basic_vars = basic]
                        ELSE h[e]]

(***************************************************************************)
(* simplex_solve                                                           *)
(***************************************************************************)
\* lines 25-27
F_Construct ==
    /\ impl = "F" /\ pc = "start"
    /\ LET built == construct_simplex_table(constraints, num_vars)
       IN  IF built.err
           THEN /\ Raise("IndexError")
                /\ UNCHANGED <<simplex_table, basic_vars, r_rows, num_s_vars, num_r_vars>>
           ELSE /\ simplex_table' = built.coeff_matrix
                /\ r_rows' = built.r_rows
                /\ num_s_vars' = built.num_s_vars
                /\ num_r_vars' = built.num_r_vars
                /\ basic_vars' = [i \in DOMAIN built.coeff_matrix |-> 0]
                /\ pc' = "phase1"
                /\ UNCHANGED error
    /\ UNCHANGED <<problem_vars, history, step, key_row, key_column,
                   simplex_ret, gomory_ret, phase1_passes>>

\* line 28
F_Phase1 ==
    /\ impl = "F" /\ pc = "phase1"
    /\ LET p == phase1(simplex_table, basic_vars, r_rows, num_vars, num_s_vars)
       IN  /\ simplex_table' = p.simplex_table
           /\ basic_vars' = p.basic_vars
           /\ IF p.type_error
              THEN Raise("TypeError") /\ UNCHANGED phase1_passes
              ELSE pc' = "phase2" /\ phase1_passes' = phase1_passes + 1 /\ UNCHANGED error
    /\ UNCHANGED <<problem_vars, r_rows, num_s_vars, num_r_vars, history, step,
                   key_row, key_column, simplex_ret, gomory_ret>>

\* lines 29-45
F_Phase2Init ==
    /\ impl = "F" /\ pc = "phase2"
    /\ LET r_index == num_r_vars + num_s_vars
       IN  IF \E i \in DOMAIN basic_vars : basic_vars[i] > r_index
           THEN /\ Raise("ValueError: Infeasible solution")
                /\ UNCHANGED <<simplex_table, history, step>>
           ELSE LET deleted == delete_r_vars(simplex_table, num_vars, num_s_vars)
                    updated == update_objective_function(deleted, objective_function)
                    n == Renormalize(updated, basic_vars, 0)
                IN  /\ simplex_table' = n.simplex_table
                    /\ IF n.index_error
                       THEN Raise("IndexError") /\ UNCHANGED <<history, step>>
                       ELSE /\ history' = Record(Empty, "Initial Simplex-method", 0,
                                                 n.simplex_table, basic_vars)
                            /\ step' = 1
                            /\ pc' = "simplex_loop"
                            /\ UNCHANGED error
    /\ UNCHANGED <<problem_vars, basic_vars, r_rows, num_s_vars, num_r_vars,
                   key_row, key_column, simplex_ret, gomory_ret, phase1_passes>>

\* lines 46-52, one iteration of the loop
F_SimplexIteration ==
    /\ impl = "F" /\ pc = "simplex_loop"
    /\ ~check_condition(simplex_table)
    /\ step <= MaxPivots
    /\ LET col == find_key_column(simplex_table)
           r == find_key_row(simplex_table, col)
           s == simplex_step(simplex_table, basic_vars, col, r.key_row)
       IN  /\ key_column' = col
           /\ IF r.unbounded
              THEN /\ Raise("ValueError: Unbounded solution")
                   /\ UNCHANGED <<simplex_table, basic_vars, history, step, key_row>>
              ELSE /\ key_row' = r.key_row
                   /\ simplex_table' = s.simplex_table
                   /\ basic_vars' = s.basic_vars
                   /\ history' = Record(history, "Simplex-method step", step,
                                        s.simplex_table, s.basic_vars)
                   /\ step' = step + 1
                   /\ UNCHANGED <<pc, error>>
    /\ UNCHANGED <<problem_vars, r_rows, num_s_vars, num_r_vars,
                   simplex_ret, gomory_ret, phase1_passes>>

\* lines 53-55
F_SimplexReturn ==
    /\ impl = "F" /\ pc = "simplex_loop"
    /\ check_condition(simplex_table)
    /\ simplex_ret' = [set |-> TRUE, optimum |-> Last(simplex_table[0]),
                       optimal_plane |-> create_solution(simplex_table, basic_vars, num_vars),
                       arity |-> 4]
    /\ pc' = "simplex_returned"
    /\ UNCHANGED <<problem_vars, simplex_table, basic_vars, r_rows, num_s_vars,
                   num_r_vars, history, step, key_row, key_column, gomory_ret,
                   error, phase1_passes>>

(***************************************************************************)
(* gomory_solve                                                            *)
(***************************************************************************)
\* lines 32-41: the table and the basic variables are the objects of the last
\* history entry, not copies of them
F_GomoryEnter ==
    /\ impl = "F" /\ pc = "simplex_returned"
    /\ LET last == Size(history) - 1
           table == history[last].simplex_table
           basic == history[last].basic_vars
           aliased == [history EXCEPT ![last].shared = TRUE]
       IN  /\ simplex_table' = table
           /\ basic_vars' = basic
           /\ IF check_integer_condition(table)
              THEN /\ gomory_ret' = [set |-> TRUE, optimum |-> Last(table[0]),
                                     optimal_plane |-> simplex_ret.optimal_plane,
                                     arity |-> 2]
                   /\ history' = aliased
                   /\ pc' = "gomory_returned"
                   /\ UNCHANGED step
              ELSE /\ history' = Record(aliased, "Initial Gomory-method", 0, table, basic)
                   /\ step' = 1
                   /\ pc' = "gomory_loop"
                   /\ UNCHANGED gomory_ret
    /\ UNCHANGED <<problem_vars, r_rows, num_s_vars, num_r_vars, key_row, key_column,
                   simplex_ret, error, phase1_passes>>

\* lines 42-49, one iteration of the loop
F_GomoryIteration ==
    /\ impl = "F" /\ pc = "gomory_loop"
    /\ ~check_integer_condition(simplex_table)
    /\ step <= MaxCuts
    /\ \E index \in find_max_fractional_index(simplex_table) :
         LET c == add_clipping(simplex_table, basic_vars, index)
             row == get_key_row(c.simplex_table)
             col == get_key_column(c.simplex_table, row)
             s == simplex_step(c.simplex_table, c.basic_vars, col, row)
         IN  /\ key_row' = row
             /\ key_column' = col
             /\ simplex_table' = s.simplex_table
             /\ basic_vars' = s.basic_vars
             /\ IF s.zero_division
                THEN /\ Raise("ZeroDivisionError")
                     /\ history' = InPlace(history, s.simplex_table, s.basic_vars)
                     /\ UNCHANGED step
                ELSE /\ history' = Record(InPlace(history, s.simplex_table, s.basic_vars),
                                          "Gomory method step", step,
                                          s.simplex_table, s.basic_vars)
                     /\ step' = step + 1
                     /\ UNCHANGED <<pc, error>>
    /\ UNCHANGED <<problem_vars, r_rows, num_s_vars, num_r_vars,
                   simplex_ret, gomory_ret, phase1_passes>>

\* lines 50-53
F_GomoryReturn ==
    /\ impl = "F" /\ pc = "gomory_loop"
    /\ check_integer_condition(simplex_table)
    /\ gomory_ret' = [set |-> TRUE, optimum |-> Last(simplex_table[0]),
                      optimal_plane |-> create_solution(simplex_table, basic_vars, num_vars),
                      arity |-> 4]
    /\ pc' = "gomory_returned"
    /\ UNCHANGED <<problem_vars, simplex_table, basic_vars, r_rows, num_s_vars,
                   num_r_vars, history, step, key_row, key_column, simplex_ret,
                   error, phase1_passes>>

(***************************************************************************)
(* SimplexMethod and GomoryMethod.  Every history entry is a deep copy of   *)
(* the table the object owns.  _phase1 is defined and never called.        *)
(***************************************************************************)
\* SimplexMethod.__init__, lines 21-34
OO_Init ==
    /\ impl = "OO" /\ pc = "start"
    /\ LET built == ST_init(num_vars, constraints, objective_function)
           zeros == [i \in DOMAIN built.coeff_matrix |-> 0]
           r_index == built.num_r_vars + built.num_s_vars
       IN  IF built.err
           THEN /\ Raise("IndexError")
                /\ UNCHANGED <<simplex_table, basic_vars, r_rows, num_s_vars, num_r_vars>>
           ELSE /\ r_rows' = built.r_rows
                /\ num_s_vars' = built.num_s_vars
                /\ num_r_vars' = built.num_r_vars
                /\ basic_vars' = zeros
                /\ IF \E i \in DOMAIN zeros : zeros[i] > r_index
                   THEN /\ Raise("ValueError: Infeasible solution")
                        /\ simplex_table' = built.coeff_matrix
                   ELSE /\ simplex_table' = SM_delete_r_vars(built.coeff_matrix, num_vars,
                                                             built.num_s_vars)
                        /\ pc' = "phase2"
                        /\ UNCHANGED error
    /\ UNCHANGED <<problem_vars, history, step, key_row, key_column,
                   simplex_ret, gomory_ret, phase1_passes>>

\* SimplexMethod.solve, lines 47-54
OO_SolveStart ==
    /\ impl = "OO" /\ pc = "phase2"
    /\ LET table == SM_Renormalize(simplex_table, basic_vars, 0)
       IN  /\ simplex_table' = table
           /\ history' = Record(history, "Initial Simplex-method table", 0, table, basic_vars)
    /\ step' = 1
    /\ pc' = "simplex_loop"
    /\ UNCHANGED <<problem_vars, basic_vars, r_rows, num_s_vars, num_r_vars,
                   key_row, key_column, simplex_ret, gomory_ret, error, phase1_passes>>

\* SimplexMethod.solve, lines 55-62, one iteration of the loop
OO_SimplexIteration ==
    /\ impl = "OO" /\ pc = "simplex_loop"
    /\ ~SM_check_condition(simplex_table)
    /\ step <= MaxPivots
    /\ LET col == SM_find_key_column(simplex_table)
           r == SM_find_key_row(simplex_table, col)
           s == SM_simplex_step(simplex_table, basic_vars, col, r.key_row)
       IN  /\ key_column' = col
           /\ IF r.unbounded
              THEN /\ Raise("ValueError: Unbounded solution")
                   /\ UNCHANGED <<simplex_table, basic_vars, history, step, key_row>>
              ELSE /\ key_row' = r.key_row
                   /\ simplex_table' = s.simplex_table
                   /\ basic_vars' = s.basic_vars
                   /\ history' = Record(history, "Simplex-method step", step,
                                        s.simplex_table, s.basic_vars)
                   /\ step' = step + 1
                   /\ UNCHANGED <<pc, error>>
    /\ UNCHANGED <<problem_vars, r_rows, num_s_vars, num_r_vars,
                   simplex_ret, gomory_ret, phase1_passes>>

\* SimplexMethod.solve, lines 63-65
OO_SolveReturn ==
    /\ impl = "OO" /\ pc = "simplex_loop"
    /\ SM_check_condition(simplex_table)
    /\ simplex_ret' = [set |-> TRUE, optimum |-> Last(simplex_table[0]),
                       optimal_plane |-> SM_get_solution(simplex_table, basic_vars, num_vars),
                       arity |-> 2]
    /\ pc' = "simplex_returned"
    /\ UNCHANGED <<problem_vars, simplex_table, basic_vars, r_rows, num_s_vars,
                   num_r_vars, history, step, key_row, key_column, gomory_ret,
                   error, phase1_passes>>

\* GomoryMethod.integer_solve, lines 35-39
OO_IntegerSolveEnter ==
    /\ impl = "OO" /\ pc = "simplex_returned"
    /\ IF GM_check_integer_condition(simplex_table)
       THEN /\ gomory_ret' = [set |-> TRUE, optimum |-> Last(simplex_table[0]),
                              optimal_plane |-> simplex_ret.optimal_plane,
                              arity |-> 2]
            /\ pc' = "gomory_returned"
            /\ UNCHANGED <<history, step>>
       ELSE /\ history' = Record(history, "Initial Gomory-method", 0,
                                 simplex_table, basic_vars)
            /\ step' = 1
            /\ pc' = "gomory_loop"
            /\ UNCHANGED gomory_ret
    /\ UNCHANGED <<problem_vars, simplex_table, basic_vars, r_rows, num_s_vars,
                   num_r_vars, key_row, key_column, simplex_ret, error, phase1_passes>>

\* GomoryMethod.integer_solve, lines 40-47, one iteration of the loop
OO_GomoryIteration ==
    /\ impl = "OO" /\ pc = "gomory_loop"
    /\ ~GM_check_integer_condition(simplex_table)
    /\ step <= MaxCuts
    /\ \E index \in GM_find_max_fractional_index(simplex_table) :
         LET c == GM_add_clipping(simplex_table, basic_vars, index)
             row == GM_get_key_row(c.simplex_table)
             col == GM_get_key_column(c.simplex_table, row)
             s == SM_simplex_step(c.simplex_table, c.basic_vars, col, row)
         IN  /\ key_row' = row
             /\ key_column' = col
             /\ simplex_table' = s.simplex_table
             /\ basic_vars' = s.basic_vars
             /\ IF s.zero_division
                THEN /\ Raise("ZeroDivisionError")
                     /\ UNCHANGED <<history, step>>
                ELSE /\ history' = Record(history, "Gomory method step", step,
                                          s.simplex_table, s.basic_vars)
                     /\ step' = step + 1
                     /\ UNCHANGED <<pc, error>>
    /\ UNCHANGED <<problem_vars, r_rows, num_s_vars, num_r_vars,
                   simplex_ret, gomory_ret, phase1_passes>>

\* GomoryMethod.integer_solve, lines 48-50
OO_GomoryReturn ==
    /\ impl = "OO" /\ pc = "gomory_loop"
    /\ GM_check_integer_condition(simplex_table)
    /\ gomory_ret' = [set |-> TRUE, optimum |-> Last(simplex_table[0]),
                      optimal_plane |-> SM_get_solution(simplex_table, basic_vars, num_vars),
                      arity |-> 2]
    /\ pc' = "gomory_returned"
    /\ UNCHANGED <<problem_vars, simplex_table, basic_vars, r_rows, num_s_vars,
                   num_r_vars, history, step, key_row, key_column, simplex_ret,
                   error, phase1_passes>>

Next ==
    \/ F_Construct
    \/ F_Phase1
    \/ F_Phase2Init
    \/ F_SimplexIteration
    \/ F_SimplexReturn
    \/ F_GomoryEnter
    \/ F_GomoryIteration
    \/ F_GomoryReturn
    \/ OO_Init
    \/ OO_SolveStart
    \/ OO_SimplexIteration
    \/ OO_SolveReturn
    \/ OO_IntegerSolveEnter
    \/ OO_GomoryIteration
    \/ OO_GomoryReturn

Spec == Init /\ [][Next]_vars

(***************************************************************************)
(* What a problem means, independently of the solvers: the constraints     *)
(* over x >= 0 in exact arithmetic.  A feasible region inside x >= 0 that  *)
(* is not empty has a vertex, the meeting point of num_vars boundary       *)
(* lines, and an objective that is unbounded on it improves along an       *)
(* extreme ray of its recession cone, which lies on a boundary line.       *)
(***************************************************************************)
RECURSIVE DotTo(_, _, _)
DotTo(a, x, k) ==
    IF k < 0 THEN Zero ELSE FAdd(DotTo(a, x, k - 1), FMul(FromInt(a[k]), x[k]))

Dot(a, x) == DotTo(a, x, Size(a) - 1)

SatisfiesConstraint(con, x) ==
    LET lhs == Dot(con.a, x)
        rhs == FromInt(con.b)
    IN  CASE con.op = "<=" -> FLe(lhs, rhs)
          [] con.op = ">=" -> FLe(rhs, lhs)
          [] con.op = "=" -> lhs = rhs

SatisfiesAll(x) == \A i \in DOMAIN constraints : SatisfiesConstraint(constraints[i], x)

NonNegative(x) == \A j \in DOMAIN x : FLe(Zero, x[j])

IsFeasiblePoint(x) == NonNegative(x) /\ SatisfiesAll(x)

\* the value of the objective function at x
ObjectiveAt(x) == Dot(objective_function.c, x)

\* the boundary lines a . x = b: the axes and the constraints
BoundaryLines ==
    {[a |-> [j \in 0..(num_vars - 1) |-> IF j = k THEN 1 ELSE 0], b |-> 0]
        : k \in 0..(num_vars - 1)}
    \cup {[a |-> constraints[i].a, b |-> constraints[i].b] : i \in DOMAIN constraints}

Det(l1, l2) == l1.a[0] * l2.a[1] - l1.a[1] * l2.a[0]

MeetingPoints ==
    IF num_vars = 1
    THEN {(0 :> Frac(l.b, l.a[0])) : l \in {l \in BoundaryLines : l.a[0] # 0}}
    ELSE {(0 :> Frac(pr[1].b * pr[2].a[1] - pr[1].a[1] * pr[2].b, Det(pr[1], pr[2]))
           @@ 1 :> Frac(pr[1].a[0] * pr[2].b - pr[1].b * pr[2].a[0], Det(pr[1], pr[2])))
          : pr \in {q \in BoundaryLines \X BoundaryLines : Det(q[1], q[2]) # 0}}

FeasibleVertices == {v \in MeetingPoints : IsFeasiblePoint(v)}

LPFeasible == FeasibleVertices # {}

IntDot(a, d) == IF Size(a) = 1 THEN a[0] * d[0] ELSE a[0] * d[0] + a[1] * d[1]

RayCandidates ==
    IF num_vars = 1 THEN {(0 :> 1)}
    ELSE {(0 :> 1 @@ 1 :> 0), (0 :> 0 @@ 1 :> 1)}
         \cup UNION {{(0 :> constraints[i].a[1] @@ 1 :> -constraints[i].a[0]),
                      (0 :> -constraints[i].a[1] @@ 1 :> constraints[i].a[0])}
                     : i \in DOMAIN constraints}

IsRecessionRay(d) ==
    /\ \A j \in DOMAIN d : d[j] >= 0
    /\ \E j \in DOMAIN d : d[j] > 0
    /\ \A i \in DOMAIN constraints :
          LET ad == IntDot(constraints[i].a, d)
          IN  CASE constraints[i].op = "<=" -> ad <= 0
                [] constraints[i].op = ">=" -> ad >= 0
                [] constraints[i].op = "=" -> ad = 0

RecessionRays == {d \in RayCandidates : IsRecessionRay(d)}

Improves(d) ==
    IF objective_function.direction = "max"
    THEN IntDot(objective_function.c, d) > 0
    ELSE IntDot(objective_function.c, d) < 0

LPUnbounded == LPFeasible /\ \E d \in RecessionRays : Improves(d)

\* x is at least as good as y for the direction of the objective
AsGoodAs(x, y) ==
    IF objective_function.direction = "max" THEN FLe(y, x) ELSE FLe(x, y)

\* the optimal value of the relaxation, when it is feasible and bounded
LPOptimum ==
    LET values == {ObjectiveAt(v) : v \in FeasibleVertices}
    IN  CHOOSE best \in values : \A w \in values : AsGoodAs(best, w)

\* integer points, by enumeration, when the feasible region is bounded
RegionBounded == LPFeasible /\ RecessionRays = {}

Floor(x) == x[1] \div x[2]

GridMax ==
    LET tops == {Floor(v[j]) : v \in FeasibleVertices, j \in 0..(num_vars - 1)}
    IN  CHOOSE t \in tops : \A u \in tops : u <= t

IntegerPoints ==
    {x \in [0..(num_vars - 1) -> {FromInt(k) : k \in 0..GridMax}] : SatisfiesAll(x)}

ILPFeasible == RegionBounded /\ IntegerPoints # {}

ILPOptimum ==
    LET values == {ObjectiveAt(x) : x \in IntegerPoints}
    IN  CHOOSE best \in values : \A w \in values : AsGoodAs(best, w)

IsMainProblem ==
    /\ num_vars = MainProblem.num_vars
    /\ constraints = MainProblem.constraints
    /\ objective_function = MainProblem.objective_function


(***************************************************************************)
(* simplex_step on its own: one pivot of any small tableau on any entry,   *)
(* the objective row included.                                             *)
(***************************************************************************)
PivotEntries == {FromInt(-1), Zero, Frac(1, MaxCoef), FromInt(MaxCoef)}

PivotTables == [0..2 -> [0..1 -> PivotEntries]]

PivotInit ==
    /\ impl \in {"F", "OO"}
    /\ num_vars = 1
    /\ constraints = Empty
    /\ objective_function = [direction |-> "min", c |-> Empty]
    /\ pc = "pivot"
    /\ simplex_table \in PivotTables
    /\ basic_vars = [i \in 0..2 |-> 0]
    /\ key_row \in 0..2
    /\ key_column \in 0..1
    /\ r_rows = Empty
    /\ num_s_vars = 0
    /\ num_r_vars = 0
    /\ history = Empty
    /\ step = 0
    /\ simplex_ret = NoReturn
    /\ gomory_ret = NoReturn
    /\ error = ""
    /\ phase1_passes = 0
    /\ functional_run = NoRun

\* simplex_module.simplex_step
F_Pivot ==
    /\ impl = "F" /\ pc = "pivot"
    /\ LET s == simplex_step(simplex_table, basic_vars, key_column, key_row)
       IN  /\ simplex_table' = s.simplex_table
           /\ basic_vars' = s.basic_vars
           /\ IF s.zero_division
              THEN Raise("ZeroDivisionError")
              ELSE pc' = "pivoted" /\ UNCHANGED error
    /\ UNCHANGED <<problem_vars, r_rows, num_s_vars, num_r_vars, history, step,
                   key_row, key_column, simplex_ret, gomory_ret, phase1_passes>>

\* SimplexMethod.simplex_step
OO_Pivot ==
    /\ impl = "OO" /\ pc = "pivot"
    /\ LET s == SM_simplex_step(simplex_table, basic_vars, key_column, key_row)
       IN  /\ simplex_table' = s.simplex_table
           /\ basic_vars' = s.basic_vars
           /\ IF s.zero_division
              THEN Raise("ZeroDivisionError")
              ELSE pc' = "pivoted" /\ UNCHANGED error
    /\ UNCHANGED <<problem_vars, r_rows, num_s_vars, num_r_vars, history, step,
                   key_row, key_column, simplex_ret, gomory_ret, phase1_passes>>

PivotNext == F_Pivot \/ OO_Pivot

PivotSpec == PivotInit /\ [][PivotNext]_vars


(***************************************************************************)
(* create_solution / get_solution on their own: any small table, any       *)
(* basic variables for its two constraint rows (slack indices and repeated *)
(* indices included), one or two decision variables.                       *)
(***************************************************************************)
ExtractEntries == {Zero, One, FromInt(MaxRhs)}

ExtractTables == [0..2 -> [0..1 -> ExtractEntries]]

ExtractInit ==
    /\ impl \in {"F", "OO"}
    /\ num_vars \in {1, 2}
    /\ constraints = Empty
    /\ objective_function = [direction |-> "min", c |-> Empty]
    /\ pc = "extract"
    /\ simplex_table \in ExtractTables
    /\ basic_vars \in {b \in [0..2 -> 0..3] : b[0] = 0}
    /\ key_row = 0
    /\ key_column = 0
    /\ r_rows = Empty
    /\ num_s_vars = 0
    /\ num_r_vars = 0
    /\ history = Empty
    /\ step = 0
    /\ simplex_ret = NoReturn
    /\ gomory_ret = NoReturn
    /\ error = ""
    /\ phase1_passes = 0
    /\ functional_run = NoRun

\* utils.create_solution
F_Extract ==
    /\ impl = "F" /\ pc = "extract"
    /\ simplex_ret' = [set |-> TRUE, optimum |-> Last(simplex_table[0]),
                       optimal_plane |-> create_solution(simplex_table, basic_vars, num_vars),
                       arity |-> 4]
    /\ pc' = "extracted"
    /\ UNCHANGED <<problem_vars, simplex_table, basic_vars, r_rows, num_s_vars,
                   num_r_vars, history, step, key_row, key_column, gomory_ret,
                   error, phase1_passes>>

\* SimplexMethod.get_solution
OO_Extract ==
    /\ impl = "OO" /\ pc = "extract"
    /\ simplex_ret' = [set |-> TRUE, optimum |-> Last(simplex_table[0]),
                       optimal_plane |-> SM_get_solution(simplex_table, basic_vars, num_vars),
                       arity |-> 2]
    /\ pc' = "extracted"
    /\ UNCHANGED <<problem_vars, simplex_table, basic_vars, r_rows, num_s_vars,
                   num_r_vars, history, step, key_row, key_column, gomory_ret,
                   error, phase1_passes>>

ExtractNext == F_Extract \/ OO_Extract

ExtractSpec == ExtractInit /\ [][ExtractNext]_vars


(***************************************************************************)
(* The selection rules on their own: the key column, the key row and the   *)
(* Gomory key row of any small table of an objective row, two constraint   *)
(* rows, two variable columns and the right-hand sides.                    *)
(***************************************************************************)
SelectCoefs == {FromInt(-1), One, FromInt(MaxCoef)}

SelectRhs == {FromInt(-1), Zero, FromInt(MaxRhs)}

SelectRows == {(0 :> a @@ 1 :> b @@ 2 :> c) : a \in SelectCoefs, b \in SelectCoefs,
                                             c \in SelectRhs}

SelectInit ==
    /\ impl \in {"F", "OO"}
    /\ num_vars = 2
    /\ constraints = Empty
    /\ objective_function = [direction |-> "min", c |-> Empty]
    /\ pc = "select"
    /\ simplex_table \in [0..2 -> SelectRows]
    /\ basic_vars = [i \in 0..2 |-> 0]
    /\ key_row = 0
    /\ key_column \in 0..1
    /\ r_rows = Empty
    /\ num_s_vars = 0
    /\ num_r_vars = 0
    /\ history = Empty
    /\ step = 0
    /\ simplex_ret = NoReturn
    /\ gomory_ret = NoReturn
    /\ error = ""
    /\ phase1_passes = 0
    /\ functional_run = NoRun

\* simplex_module.find_key_column
F_FindKeyColumn ==
    /\ impl = "F" /\ pc = "select"
    /\ key_column' = find_key_column(simplex_table)
    /\ pc' = "key_column_found"
    /\ UNCHANGED <<problem_vars, simplex_table, basic_vars, r_rows, num_s_vars,
                   num_r_vars, history, step, key_row, simplex_ret, gomory_ret,
                   error, phase1_passes>>

\* simplex_module.find_key_row; warn("Dengeneracy") raises nothing and is
\* kept in error with the row returned
F_FindKeyRow ==
    /\ impl = "F" /\ pc = "select"
    /\ LET r == find_key_row(simplex_table, key_column)
       IN  IF r.unbounded
           THEN Raise("ValueError: Unbounded solution") /\ UNCHANGED key_row
           ELSE /\ key_row' = r.key_row
                /\ pc' = "key_row_found"
                /\ error' = IF r.degenerate THEN "UserWarning: Dengeneracy" ELSE ""
    /\ UNCHANGED <<problem_vars, simplex_table, basic_vars, r_rows, num_s_vars,
                   num_r_vars, history, step, key_column, simplex_ret, gomory_ret,
                   phase1_passes>>

\* gomory_module.get_key_row
F_GetKeyRow ==
    /\ impl = "F" /\ pc = "select"
    /\ key_row' = get_key_row(simplex_table)
    /\ pc' = "gomory_key_row_found"
    /\ UNCHANGED <<problem_vars, simplex_table, basic_vars, r_rows, num_s_vars,
                   num_r_vars, history, step, key_column, simplex_ret, gomory_ret,
                   error, phase1_passes>>

\* SimplexMethod._find_key_column
OO_FindKeyColumn ==
    /\ impl = "OO" /\ pc = "select"
    /\ key_column' = SM_find_key_column(simplex_table)
    /\ pc' = "key_column_found"
    /\ UNCHANGED <<problem_vars, simplex_table, basic_vars, r_rows, num_s_vars,
                   num_r_vars, history, step, key_row, simplex_ret, gomory_ret,
                   error, phase1_passes>>

\* SimplexMethod._find_key_row; warn("Dengeneracy") raises nothing and is
\* kept in error with the row returned
OO_FindKeyRow ==
    /\ impl = "OO" /\ pc = "select"
    /\ LET r == SM_find_key_row(simplex_table, key_column)
       IN  IF r.unbounded
           THEN Raise("ValueError: Unbounded solution") /\ UNCHANGED key_row
           ELSE /\ key_row' = r.key_row
                /\ pc' = "key_row_found"
                /\ error' = IF r.degenerate THEN "UserWarning: Dengeneracy" ELSE ""
    /\ UNCHANGED <<problem_vars, simplex_table, basic_vars, r_rows, num_s_vars,
                   num_r_vars, history, step, key_column, simplex_ret, gomory_ret,
                   phase1_passes>>

\* GomoryMethod._get_key_row
OO_GetKeyRow ==
    /\ impl = "OO" /\ pc = "select"
    /\ key_row' = GM_get_key_row(simplex_table)
    /\ pc' = "gomory_key_row_found"
    /\ UNCHANGED <<problem_vars, simplex_table, basic_vars, r_rows, num_s_vars,
                   num_r_vars, history, step, key_column, simplex_ret, gomory_ret,
                   error, phase1_passes>>

SelectNext ==
    \/ F_FindKeyColumn \/ F_FindKeyRow \/ F_GetKeyRow
    \/ OO_FindKeyColumn \/ OO_FindKeyRow \/ OO_GetKeyRow

SelectSpec == SelectInit /\ [][SelectNext]_vars


(***************************************************************************)
(* The cut on its own: add_clipping applied to any small table of an       *)
(* objective row and two constraint rows with whole and fractional         *)
(* entries.                                                                *)
(***************************************************************************)
CutEntries == {Frac(-1, MaxCoef), Zero, One, Frac(MaxRhs, MaxCoef)}

CutInit ==
    /\ impl \in {"F", "OO"}
    /\ num_vars = 1
    /\ constraints = Empty
    /\ objective_function = [direction |-> "min", c |-> Empty]
    /\ pc = "clip"
    /\ simplex_table \in [0..2 -> [0..1 -> CutEntries]]
    /\ basic_vars \in {[i \in 0..2 |-> 0], (0 :> 0 @@ 1 :> 0 @@ 2 :> 1)}
    /\ key_row = 0
    /\ key_column = 0
    /\ r_rows = Empty
    /\ num_s_vars = 0
    /\ num_r_vars = 0
    /\ history = Empty
    /\ step = 0
    /\ simplex_ret = NoReturn
    /\ gomory_ret = NoReturn
    /\ error = ""
    /\ phase1_passes = 0
    /\ functional_run = NoRun

\* gomory_module.add_clipping; key_row keeps the index of the source row
F_AddClipping ==
    /\ impl = "F" /\ pc = "clip"
    /\ \E index \in find_max_fractional_index(simplex_table) :
         LET c == add_clipping(simplex_table, basic_vars, index)
         IN  /\ simplex_table' = c.simplex_table
             /\ basic_vars' = c.basic_vars
             /\ key_row' = index
    /\ pc' = "clipped"
    /\ UNCHANGED <<problem_vars, r_rows, num_s_vars, num_r_vars, history, step,
                   key_column, simplex_ret, gomory_ret, error, phase1_passes>>

\* GomoryMethod._add_clipping; key_row keeps the index of the source row
OO_AddClipping ==
    /\ impl = "OO" /\ pc = "clip"
    /\ \E index \in GM_find_max_fractional_index(simplex_table) :
         LET c == GM_add_clipping(simplex_table, basic_vars, index)
         IN  /\ simplex_table' = c.simplex_table
             /\ basic_vars' = c.basic_vars
             /\ key_row' = index
    /\ pc' = "clipped"
    /\ UNCHANGED <<problem_vars, r_rows, num_s_vars, num_r_vars, history, step,
                   key_column, simplex_ret, gomory_ret, error, phase1_passes>>

CutNext == F_AddClipping \/ OO_AddClipping

CutSpec == CutInit /\ [][CutNext]_vars


(***************************************************************************)
(* The two solvers on the same problem: the functional solver runs first,  *)
(* then the object-oriented solver is constructed on the same arguments    *)
(* and run, as the two main.py do with the same problem.                   *)
(***************************************************************************)
\* the (tableau, basic variables) states a history holds, in order
StatesOf(h) == [i \in DOMAIN h |-> <<h[i].simplex_table, h[i].basic_vars>>]

PairInit == Init /\ impl = "F"

\* ObjectOrientedApproach/main.py: GomoryMethod on the arguments gomory_solve
\* was called with, once gomory_solve has returned or raised
OO_SameProblem ==
    /\ impl = "F" /\ pc \in {"gomory_returned", "raised"}
    /\ functional_run' = [set |-> TRUE, pc |-> pc, error |-> error,
                          optimum |-> gomory_ret.optimum,
                          optimal_plane |-> gomory_ret.optimal_plane,
                          states |-> StatesOf(history)]
    /\ impl' = "OO"
    /\ pc' = "start"
    /\ simplex_table' = Empty
    /\ basic_vars' = Empty
    /\ r_rows' = Empty
    /\ num_s_vars' = 0
    /\ num_r_vars' = 0
    /\ history' = Empty
    /\ step' = 0
    /\ key_row' = 0
    /\ key_column' = 0
    /\ simplex_ret' = NoReturn
    /\ gomory_ret' = NoReturn
    /\ error' = ""
    /\ phase1_passes' = 0
    /\ UNCHANGED <<num_vars, constraints, objective_function>>

PairNext == Next \/ OO_SameProblem

PairSpec == PairInit /\ [][PairNext]_vars

(***************************************************************************)
(* The properties.                                                         *)
(***************************************************************************)
Finished == pc \in {"raised", "simplex_returned", "gomory_returned"}

HasEquality == \E i \in DOMAIN constraints : constraints[i].op = "="

\* C1: whenever the simplex solve returns, the returned values of the
\* decision variables satisfy every constraint of the problem, in exact
\* arithmetic.
C1_RoundTripFeasible ==
    simplex_ret.set => SatisfiesAll(simplex_ret.optimal_plane)

\* C3: a solve of a problem whose feasible region is empty ends with
\* ValueError 'Infeasible solution': no other exception, no returned result.
C3_InfeasibleSignalled ==
    (~LPFeasible /\ Finished) => error = "ValueError: Infeasible solution"

\* C4: a solve of a feasible problem whose objective improves without bound
\* ends with ValueError 'Unbounded solution': no other exception, no result.
C4_UnboundedSignalled ==
    (LPUnbounded /\ Finished) => error = "ValueError: Unbounded solution"

\* C5: for a constraint set with an '=' relation the builder counts an
\* artificial variable and records the row in r_rows, and when phase 2
\* begins a phase-1 pass has completed, in both solvers.
C5_Phase1BeforePhase2 ==
    (HasEquality /\ pc = "simplex_loop") =>
        /\ num_r_vars >= 1
        /\ \A i \in DOMAIN constraints :
              constraints[i].op = "=" => \E k \in DOMAIN r_rows : r_rows[k] = i + 1
        /\ phase1_passes >= 1

GomoryStepped ==
    \E e \in DOMAIN history : history[e].label = "Gomory method step"

\* column col of the table has 1 in the given row and 0 in every other row
UnitColumnAt(table, col, row) ==
    /\ col \in DOMAIN table[row]
    /\ \A i \in DOMAIN table : table[i][col] = IF i = row THEN One ELSE Zero

C6_OptimumIsObjectiveValue ==
    /\ simplex_ret.set => simplex_ret.optimum = ObjectiveAt(simplex_ret.optimal_plane)
    /\ gomory_ret.set => gomory_ret.optimum = ObjectiveAt(gomory_ret.optimal_plane)

\* C7: for a problem with integer points, after every Gomory step the
\* objective value of the tableau is at least as good as the integer optimum
\* found by enumeration, and the value the Gomory solve returns after its
\* steps is that optimum.
C7_GomoryReachesIntegerOptimum ==
    (GomoryStepped /\ ILPFeasible) =>
        /\ pc = "gomory_loop" => AsGoodAs(Last(simplex_table[0]), ILPOptimum)
        /\ gomory_ret.set => gomory_ret.optimum = ILPOptimum

\* C8: after simplex_step on a nonzero pivot entry the pivoted column has 1
\* in the key row and 0 in every other row, the objective row included.
C8_PivotColumnIsUnit ==
    pc = "pivoted" => UnitColumnAt(simplex_table, key_column, key_row)

\* C8, reached: a pivot on a constraint row whose other entry is neither 0
\* nor 1 has been made
C8_Pivoted ==
    /\ pc = "pivoted"
    /\ key_row >= 1
    /\ \E j \in DOMAIN simplex_table[key_row] :
          j # key_column /\ simplex_table[key_row][j] \notin {Zero, One}

\* C9: in every recorded 'Simplex-method step k' and 'Gomory method step k'
\* state, for every constraint row i >= 1, basic_vars[i] is the index of a
\* column with 1 in row i and 0 in all other rows.
C9_BasicColumnsAreUnit ==
    \A e \in DOMAIN history :
        (history[e].k >= 1 /\ ~history[e].shared) =>
            \A i \in 1..(Size(history[e].simplex_table) - 1) :
                UnitColumnAt(history[e].simplex_table, history[e].basic_vars[i], i)

\* C10: a step of a solve leaves every entry of the history in place, with
\* the label, the table and the basic variables it was recorded with.
C10_HistoryAppendOnly ==
    [][\A e \in DOMAIN history :
          /\ e \in DOMAIN history'
          /\ history'[e].label = history[e].label
          /\ history'[e].k = history[e].k
          /\ history'[e].simplex_table = history[e].simplex_table
          /\ history'[e].basic_vars = history[e].basic_vars]_vars

\* C11: when the table the simplex solve ends with is already integer,
\* gomory_solve returns without a cut or a pivot, and what it returns is the
\* relaxation's optimum and solution in the four-part result of the cutting
\* path (optimum, solution, table history, basic-variable history).
C11_EarlyExitFourParts ==
    (impl = "F" /\ gomory_ret.set /\ ~GomoryStepped) =>
        /\ gomory_ret.optimum = simplex_ret.optimum
        /\ gomory_ret.optimal_plane = simplex_ret.optimal_plane
        /\ gomory_ret.arity = 4

\* the rows, from row 1 on, in which decision variable j is the basic variable
BasicRows(j) == {i \in 1..(Size(basic_vars) - 1) : basic_vars[i] = j}

\* C12, as the specification states it: the solution has exactly the keys
\* x_1..x_n, a decision variable that is basic in row i has that row's
\* right-hand side, and one that is basic in no row has 0.
C12_SolutionAsStated ==
    pc = "extracted" =>
        /\ DOMAIN simplex_ret.optimal_plane = 0..(num_vars - 1)
        /\ \A j \in 0..(num_vars - 1) :
              /\ \A i \in BasicRows(j) :
                    simplex_ret.optimal_plane[j] = Last(simplex_table[i])
              /\ BasicRows(j) = {} => simplex_ret.optimal_plane[j] = Zero

\* C12, amended: the solution has exactly the keys x_1..x_n; a decision
\* variable that is basic in one or more rows has the right-hand side of the
\* last of them, and one that is basic in no row has 0.
C12_Solution ==
    pc = "extracted" =>
        /\ DOMAIN simplex_ret.optimal_plane = 0..(num_vars - 1)
        /\ \A j \in 0..(num_vars - 1) :
              /\ \A i \in BasicRows(j) :
                    (\A k \in BasicRows(j) : k <= i) =>
                        simplex_ret.optimal_plane[j] = Last(simplex_table[i])
              /\ BasicRows(j) = {} => simplex_ret.optimal_plane[j] = Zero

\* C12, reached: a solution has been extracted where x_1 is basic in rows 1
\* and 2 with different right-hand sides and x_2 is basic in no row
C12_Extracted ==
    /\ pc = "extracted"
    /\ num_vars = 2
    /\ BasicRows(0) = {1, 2}
    /\ Last(simplex_table[1]) # Last(simplex_table[2])

\* C13: the table is built for every constraint set (no artificial
\* coefficient falls outside its row); the builder counts one slack variable
\* for each '<=' and each '>=' and one artificial variable for each '>=' and
\* each '=', so num_r_vars is the number of rows recorded in r_rows.
C13_BuilderCounts ==
    pc # "start" =>
        /\ ~(pc = "raised" /\ error = "IndexError" /\ simplex_table = Empty)
        /\ simplex_table # Empty =>
              /\ num_s_vars = CountOps(constraints, {"<=", ">="})
              /\ num_r_vars = CountOps(constraints, {">=", "="})
              /\ num_r_vars = Size(r_rows)

\* The columns of the objective row, the right-hand side excluded, whose
\* absolute value is the largest
LargestColumns ==
    LET F == simplex_table[0]
        cols == 0..(Size(F) - 2)
    IN  {j \in cols : \A k \in cols : FLe(FAbs(F[k]), FAbs(F[j]))}

\* C14 as stated: find_key_column returns a column, the right-hand side
\* excluded, of largest absolute value in the objective row, and of several
\* such columns the one with the earliest index.
C14_KeyColumnAsStated ==
    pc = "key_column_found" =>
        /\ key_column \in LargestColumns
        /\ \A j \in LargestColumns : key_column <= j

\* C14 amended: find_key_column returns a column, the right-hand side
\* excluded, of largest absolute value in the objective row, and of several
\* such columns the one with the latest index.
C14_KeyColumn ==
    pc = "key_column_found" =>
        /\ key_column \in LargestColumns
        /\ \A j \in LargestColumns : key_column >= j

\* two columns tie, with opposite signs, and the later one is returned
C14_KeyColumnTie ==
    /\ pc = "key_column_found"
    /\ LargestColumns = {0, 1}
    /\ simplex_table[0][0] # simplex_table[0][1]
    /\ key_column = 1

\* The constraint rows with a strictly positive entry in column col
PositiveRows(col) ==
    {i \in 1..(Size(simplex_table) - 1) : FLt(Zero, simplex_table[i][col])}

\* RHS / key-column entry of row i
Ratio(i, col) == FDiv(Last(simplex_table[i]), simplex_table[i][col])

\* The rows of PositiveRows(col) whose ratio is the smallest
MinRatioRows(col) ==
    {i \in PositiveRows(col) :
        \A k \in PositiveRows(col) : FLe(Ratio(i, col), Ratio(k, col))}

\* C15: among the constraint rows with a strictly positive entry in the key
\* column, find_key_row returns the earliest row of smallest RHS / entry; a
\* zero smallest ratio gives the Dengeneracy warning and the row all the
\* same; with no such row it raises Unbounded solution and returns no row.
C15_KeyRow ==
    /\ pc = "key_row_found" =>
          /\ key_row \in MinRatioRows(key_column)
          /\ \A i \in MinRatioRows(key_column) : key_row <= i
          /\ (error = "UserWarning: Dengeneracy") = (Ratio(key_row, key_column) = Zero)
          /\ error \in {"", "UserWarning: Dengeneracy"}
    /\ (pc = "raised" /\ error = "ValueError: Unbounded solution") =>
          /\ PositiveRows(key_column) = {}
          /\ key_row = 0
    /\ (pc \in {"key_row_found", "raised"} /\ PositiveRows(key_column) = {}) =>
          (pc = "raised" /\ error = "ValueError: Unbounded solution")

\* two rows tie at ratio zero: the earlier one is returned, with the warning
C15_DegenerateTie ==
    /\ pc = "key_row_found"
    /\ MinRatioRows(key_column) = {1, 2}
    /\ key_row = 1
    /\ error = "UserWarning: Dengeneracy"

\* no row has a positive entry in the key column
C15_Unbounded ==
    /\ pc = "raised"
    /\ PositiveRows(key_column) = {}

\* every entry of the objective row, the right-hand side excluded, is <= 0
OptimalityCondition ==
    \A j \in 0..(Size(simplex_table[0]) - 2) : FLe(simplex_table[0][j], Zero)

\* C16: the phase-2 pivot loop stops exactly when every entry of the
\* objective row other than the right-hand side is <= 0, whatever the
\* right-hand side entry of the objective row is.
C16_StopsOnOptimalityCondition ==
    [][(pc = "simplex_loop" /\ step <= MaxPivots) =>
           ((pc' = "simplex_returned") <=> OptimalityCondition)]_vars

\* some constraint row's basic variable is an artificial variable (column
\* index at or beyond num_vars + num_s_vars) and that row's RHS is not zero
ArtificialRemainsBasic ==
    \E i \in 1..(Size(basic_vars) - 1) :
        /\ basic_vars[i] >= num_vars + num_s_vars
        /\ Last(simplex_table[i]) # Zero

\* C17: after phase 1 the solve signals Infeasible exactly when an artificial
\* variable is still basic in a row of nonzero RHS: a solve that signalled
\* Infeasible stopped in such a state, on a problem without a feasible point,
\* and a solve that went on to its initial phase-2 table did not leave
\* phase 1 in such a state.
C17_InfeasibilityRule ==
    /\ (pc = "raised" /\ error = "ValueError: Infeasible solution") =>
          (ArtificialRemainsBasic /\ ~LPFeasible)
    /\ (pc = "simplex_loop" /\ step = 1) => ~ArtificialRemainsBasic

\* C18: in the state recorded as the initial simplex table, before the first
\* phase-2 pivot, the objective-row coefficient of the basic variable of
\* every constraint row is exactly zero.
C18_BasicCoefficientsZeroed ==
    (pc = "simplex_loop" /\ Size(history) = 1) =>
        \A i \in 1..(Size(history[0].basic_vars) - 1) :
            history[0].simplex_table[0][history[0].basic_vars[i]] = Zero

\* new is old with one more row and one more column: the new column stands
\* just before the right-hand sides, with 1 in the new row and 0 in every
\* old row, every old entry is where it was, and entry j of the new row is
\* the source row's entry j lowered to its floor and negated (zero for a
\* zero entry), the right-hand side included
IsCutOf(old, new, index) ==
    LET rows == Size(old)
        width == Size(old[0])
        OldColumn(j) == IF j = width THEN width - 1 ELSE j
    IN  /\ DOMAIN new = 0..rows
        /\ \A i \in 0..rows : DOMAIN new[i] = 0..width
        /\ \A i \in 0..(rows - 1) :
              /\ new[i][width - 1] = Zero
              /\ \A j \in (0..width) \ {width - 1} : new[i][j] = old[i][OldColumn(j)]
        /\ new[rows][width - 1] = One
        /\ \A j \in (0..width) \ {width - 1} :
              LET x == old[index][OldColumn(j)]
              IN  new[rows][j] = FSub(FromInt(Floor(x)), x)

NegativeRows ==
    {i \in 1..(Size(simplex_table) - 1) : FLt(Last(simplex_table[i]), Zero)}

\* The rows of NegativeRows whose RHS is the most negative
MostNegativeRows ==
    {i \in NegativeRows :
        \A k \in NegativeRows : FLe(Last(simplex_table[i]), Last(simplex_table[k]))}

GomoryPivots ==
    IF impl = "F"
    THEN {[table |-> c.simplex_table, row |-> get_key_row(c.simplex_table),
           col |-> get_key_column(c.simplex_table, get_key_row(c.simplex_table))] :
             c \in {add_clipping(simplex_table, basic_vars, index) :
                      index \in find_max_fractional_index(simplex_table)}}
    ELSE {[table |-> c.simplex_table, row |-> GM_get_key_row(c.simplex_table),
           col |-> GM_get_key_column(c.simplex_table, GM_get_key_row(c.simplex_table))] :
             c \in {GM_add_clipping(simplex_table, basic_vars, index) :
                      index \in GM_find_max_fractional_index(simplex_table)}}

\* the columns of table with a strictly negative entry in row
NegativeColumns(table, row) ==
    {j \in 0..(Size(table[0]) - 2) : FLt(table[row][j], Zero)}

\* C21: the column chosen for the re-optimization pivot has a strictly
\* negative entry in the key row, its objective-row entry / key-row entry is
\* the smallest over all columns with a negative entry in the key row, and
\* of several such columns it is the earliest.
C21_GomoryKeyColumn ==
    (pc = "gomory_loop" /\ step <= MaxCuts
        /\ ~(IF impl = "F" THEN check_integer_condition(simplex_table)
                           ELSE GM_check_integer_condition(simplex_table))) =>
        \A p \in GomoryPivots :
            LET ratio(j) == FDiv(p.table[0][j], p.table[p.row][j])
                cols == NegativeColumns(p.table, p.row)
            IN  /\ p.col \in cols
                /\ \A j \in cols : FLe(ratio(p.col), ratio(j))
                /\ \A j \in cols : ratio(j) = ratio(p.col) => p.col <= j

\* C22: run on the same problem, the object-oriented solver ends as the
\* functional solver did: the same (tableau, basic variables) states in the
\* same order, and the same optimum and solution or the same error.
C22_SameRun ==
    (impl = "OO" /\ functional_run.set /\ pc \in {"gomory_returned", "raised"}) =>
        /\ StatesOf(history) = functional_run.states
        /\ pc = functional_run.pc
        /\ error = functional_run.error
        /\ gomory_ret.optimum = functional_run.optimum
        /\ gomory_ret.optimal_plane = functional_run.optimal_plane

\* every constraint is a '<=' constraint (the right-hand sides of the
\* problems are all nonnegative)
OnlyLessEqual == \A i \in DOMAIN constraints : constraints[i].op = "<="

\* the tables recorded by the phase-2 loop so far differ from one another
NoTableauRevisited ==
    \A i, k \in DOMAIN history :
        (i # k /\ ~history[i].shared /\ ~history[k].shared) =>
            history[i].simplex_table # history[k].simplex_table

RhsNonNegative ==
    \A i \in 1..(Size(simplex_table) - 1) : FLe(Zero, Last(simplex_table[i]))

\* C23: on a problem with only '<=' constraints and nonnegative right-hand
\* sides the phase-2 pivot loop of simplex_solve never records a table it
\* has recorded before, keeps every constraint row's RHS nonnegative, and
\* has stopped, with the optimality condition or the Unbounded error, before
\* MaxPivots pivots.
C23_PivotLoopTerminates ==
    (impl = "F" /\ OnlyLessEqual /\ pc = "simplex_loop") =>
        /\ NoTableauRevisited
        /\ RhsNonNegative
        /\ step <= MaxPivots

=============================================================================
